---- MODULE Spec2Model ----
(***************************************************************************)
(* Model of the async mutex of src/src/mutex.rs: the state word, the       *)
(* notifier queue, the fast path, the two-phase (racy, then fair)          *)
(* acquisition state machine AcquireSlow, its destruction, the guards and  *)
(* the Debug rendering.                                                    *)
(* Every atomic operation on Mutex::state and every call on                *)
(* Mutex::lock_ops is one step, so that all interleavings of concurrently  *)
(* driven attempts are explored.                                           *)
(***************************************************************************)
EXTENDS Integers, Sequences, FiniteSets

\* Number of tasks; each runs one acquisition attempt at a time.
NumTasks == 3
\* Number of acquisition attempts (try_lock calls or lock futures) in all.
MaxCalls == 4
\* Width in bits of the state word (usize) of the modelled build.
Width == 4

\* Narrowest state word considered: one escalated attempt fits, two do not.
MinWidth == 2

Procs == 1..NumTasks

\* Odd tasks use the borrowing entry points (try_lock, lock, MutexGuard),
\* even tasks the shared-ownership ones (try_lock_arc, lock_arc, MutexGuardArc).
Kind(p) == IF p % 2 = 1 THEN "ref" ELSE "arc"

VARIABLES
    state,      \* Mutex::state: bit 0 = locked, the rest = starved count * 2
    lock_ops,   \* Mutex::lock_ops: the notifier's listener queue, oldest first
    data,       \* Mutex::data: the protected value
    pc,         \* position of each task's attempt in its poll or destructor
    mutex,      \* AcquireSlow::mutex is Some
    starved,    \* AcquireSlow::starved
    guard,      \* the attempt's guard: none, held, read, written, notify, dropped
    tmp,        \* value read through the guard and not yet written back
    ahead,      \* history: the escalated attempts pending when this one arrived
    entered,    \* history: the pending escalated attempts, in the order in
                \* which they came to be registered in the fair loop
    subs,       \* history: number of fetch_sub(2) this attempt performed
    incs,       \* history: number of increments begun through a guard
    calls,      \* history: number of attempts started
    width,      \* width of the state word
    aborted     \* crate::abort() was called

vars == <<state, lock_ops, data, pc, mutex, starved, guard, tmp, ahead,
          entered, subs, incs, calls, width, aborted>>

-----------------------------------------------------------------------------
(* The state word: wrapping arithmetic of AtomicUsize.                     *)

Modulus == 2 ^ width
UsizeMax == Modulus - 1
FetchAdd(s, k) == (s + k) % Modulus
FetchSub(s, k) == (s + Modulus - k) % Modulus
FetchOr1(s) == IF s % 2 = 0 THEN s + 1 ELSE s

\* compare_exchange(expected, new): the new value of the word.
CompareExchange(s, expected, new) == IF s = expected THEN new ELSE s

-----------------------------------------------------------------------------
(* The notifier (event_listener::Event): a queue of listeners in           *)
(* registration order, each notified or not.  notify(n) makes sure at      *)
(* least n listeners of the queue are notified, oldest first; a listener   *)
(* that is polled after its notification leaves the queue; a listener that *)
(* is dropped while notified passes its notification on.                   *)

Entry(p) == [id |-> p, notified |-> FALSE]
Listen(q, p) == Append(q, Entry(p))
Registered(q, p) == \E i \in DOMAIN q : q[i].id = p
IsNotified(q, p) == \E i \in DOMAIN q : q[i].id = p /\ q[i].notified
NotifiedCount(q) == Cardinality({i \in DOMAIN q : q[i].notified})
Unnotified(q, i) == Cardinality({j \in 1..i : ~q[j].notified})

Notify(q, n) ==
    LET k == n - NotifiedCount(q)
    IN  [i \in DOMAIN q |->
            IF ~q[i].notified /\ Unnotified(q, i) <= k
            THEN [q[i] EXCEPT !.notified = TRUE]
            ELSE q[i]]

Without(q, p) == SelectSeq(q, LAMBDA e : e.id # p)

\* Removal of p's listener; with propagate, a notification it held is passed on.
Remove(q, p, propagate) ==
    IF propagate /\ IsNotified(q, p) THEN Notify(Without(q, p), 1)
    ELSE Without(q, p)

-----------------------------------------------------------------------------
(* Decisions of the source, one operator each.                             *)

\* Variant: the lock is taken whenever the lock bit is clear.
TryLockOk_Unlocked(s) == s % 2 = 0
\* try_lock / try_lock_arc / the racy loop: compare_exchange(0, 1) succeeded.
TryLockOk(s) == s = 0
\* Variant: the racy loop goes on whenever the lock is held.
RacyRetry_Held(s) == s % 2 = 1
\* racy loop: the observed value says that nobody is starved.
RacyRetry(s) == s = 1
\* Variant: any even value counts as a successful exchange.
FairCasOk_Even(s) == s % 2 = 0
\* fair loop, after registering: compare_exchange(2, 2 | 1) succeeded.
FairCasOk(s) == s = 2
\* Variant: an odd value is not told from the other values.
FairHeld_Never(s) == FALSE
\* fair loop, after registering: the lock is held by someone.
FairHeld(s) == s % 2 = 1
\* Variants: the value before the fetch_or is not looked at; it counts as a
\* success only when no other escalated attempt is counted in it.
FairOrOk_Always(prev) == TRUE
FairOrOk_Alone(prev) == prev = 2
\* fair loop, after a notification: fetch_or(1) found the lock bit clear.
FairOrOk(prev) == prev % 2 = 0
\* Variant: the check compares with usize::MAX in place of usize::MAX / 2.
Overflow_Max(prev) == prev > UsizeMax
\* escalation: the overflow check on the value before the addition.
Overflow(prev) == prev > UsizeMax \div 2
\* Variants: the starved flag is not looked at; nothing is subtracted; the
\* Option is not looked at, so that a second call subtracts again.
TakeMutexSub_Unstarved(p) == IF mutex[p] THEN 2 ELSE 0
TakeMutexSub_Never(p) == 0
TakeMutexSub_NoTake(p) == IF starved[p] THEN 2 ELSE 0
\* take_mutex: the amount subtracted from the state word.
TakeMutexSub(p) == IF starved[p] /\ mutex[p] THEN 2 ELSE 0
\* Variant: the lock bit is left set.
UnlockState_Keep(s) == s
\* unlock_unchecked: the state word after the unlock.
UnlockState(s) == FetchSub(s, 1)
\* Variants: no waiter is woken; every waiter is woken.
UnlockNotifyQueue_None(q) == q
UnlockNotifyQueue_All(q) == Notify(q, Len(q))
\* unlock_unchecked: the notifier queue after the wake.
UnlockNotifyQueue(q) == Notify(q, 1)

\* The order of entry into the fair loop: an escalated attempt enters when it
\* is escalated and has a listener registered, and leaves when its poll
\* returns the mutex or it is destroyed.
Enter(e, p) == IF \E i \in DOMAIN e : e[i] = p THEN e ELSE Append(e, p)
Leave(e, p) == SelectSeq(e, LAMBDA x : x # p)

\* Escalated attempts that are still pending.
Pending == {a \in Procs : starved[a] /\ mutex[a] /\ guard[a] = "none"}

\* The task runs no attempt and holds no guard: it may start an attempt.
Idle(p) ==
    \/ pc[p] \in {"unpolled", "try_none", "cancelled", "fmt_locked"}
    \/ pc[p] \in {"try_some", "returned", "fmt_value"} /\ guard[p] = "dropped"

-----------------------------------------------------------------------------
\* Mutex::new; no attempt has been made.
InitFields ==
    /\ state = 0
    /\ lock_ops = <<>>
    /\ data = 0
    /\ pc = [p \in Procs |-> "unpolled"]
    /\ mutex = [p \in Procs |-> FALSE]
    /\ starved = [p \in Procs |-> FALSE]
    /\ guard = [p \in Procs |-> "none"]
    /\ tmp = [p \in Procs |-> 0]
    /\ ahead = [p \in Procs |-> {}]
    /\ entered = <<>>
    /\ subs = [p \in Procs |-> 0]
    /\ incs = 0
    /\ calls = 0
    /\ aborted = FALSE

Init == InitFields /\ width = Width

\* The same program built for a target with a narrower usize.
InitNarrow == InitFields /\ width \in MinWidth..Width

\* A task starts an attempt: the fields of a fresh attempt, and the history.
Begin(p) ==
    /\ ~aborted
    /\ Idle(p)
    /\ calls < MaxCalls
    /\ calls' = calls + 1
    /\ starved' = [starved EXCEPT ![p] = FALSE]
    /\ subs' = [subs EXCEPT ![p] = 0]
    /\ ahead' = [ahead EXCEPT ![p] = Pending]
    /\ UNCHANGED entered

-----------------------------------------------------------------------------
(* Mutex::try_lock and Mutex::try_lock_arc.                                *)

\* Variant: a failed try_lock wakes a waiter.
TryLockAs_Wake(p, k) ==
    /\ Kind(p) = k
    /\ Begin(p)
    /\ state' = CompareExchange(state, 0, 1)
    /\ guard' = [guard EXCEPT ![p] = IF TryLockOk(state) THEN "held" ELSE "none"]
    /\ pc' = [pc EXCEPT ![p] = IF TryLockOk(state) THEN "try_some" ELSE "try_none"]
    /\ lock_ops' = IF TryLockOk(state) THEN lock_ops ELSE Notify(lock_ops, 1)
    /\ UNCHANGED <<data, mutex, tmp, incs, width, aborted>>

TryLockAs(p, k) ==
    /\ Kind(p) = k
    /\ Begin(p)
    /\ state' = CompareExchange(state, 0, 1)
    /\ guard' = [guard EXCEPT ![p] = IF TryLockOk(state) THEN "held" ELSE "none"]
    /\ pc' = [pc EXCEPT ![p] = IF TryLockOk(state) THEN "try_some" ELSE "try_none"]
    /\ UNCHANGED <<lock_ops, data, mutex, tmp, incs, width, aborted>>

TryLock(p) == TryLockAs(p, "ref")
TryLockArc(p) == TryLockAs(p, "arc")

(* fmt::Debug for Mutex: try_lock, then the field is rendered from the     *)
(* guard or as the placeholder; the guard is a temporary of the match arm. *)

\* match self.try_lock(): None renders at once, Some goes on to the field.
DebugFmt(p) ==
    /\ Begin(p)
    /\ state' = CompareExchange(state, 0, 1)
    /\ guard' = [guard EXCEPT ![p] = IF TryLockOk(state) THEN "held" ELSE "none"]
    /\ pc' = [pc EXCEPT ![p] = IF TryLockOk(state) THEN "fmt_some" ELSE "fmt_locked"]
    /\ UNCHANGED <<lock_ops, data, mutex, tmp, incs, width, aborted>>

\* .field("data", &&*guard): the value is read through the guard.
DebugField(p) ==
    /\ ~aborted
    /\ pc[p] = "fmt_some" /\ guard[p] = "held"
    /\ tmp' = [tmp EXCEPT ![p] = data]
    /\ pc' = [pc EXCEPT ![p] = "fmt_value"]
    /\ UNCHANGED <<state, lock_ops, data, mutex, starved, guard, ahead,
                   entered, subs, incs, calls, width, aborted>>

\* End of the match arm: the guard is dropped, first half of unlock_unchecked.
DebugGuardDrop(p) ==
    /\ ~aborted
    /\ pc[p] = "fmt_value" /\ guard[p] = "held"
    /\ state' = UnlockState(state)
    /\ guard' = [guard EXCEPT ![p] = "notify"]
    /\ UNCHANGED <<lock_ops, data, pc, mutex, starved, tmp, ahead, entered,
                   subs, incs, calls, width, aborted>>

\* What the formatter has written for the data field, once it has.
Locked == "<locked>"
Rendered(p) ==
    IF pc[p] = "fmt_locked" THEN <<"Mutex", "data", Locked>>
    ELSE IF pc[p] = "fmt_value" THEN <<"Mutex", "data", tmp[p]>>
    ELSE <<>>

(* First activation of the futures of Mutex::lock and Mutex::lock_arc: the *)
(* fast path, and on failure AcquireSlow::new.                             *)

LockPollAs(p, k) ==
    /\ Kind(p) = k
    /\ Begin(p)
    /\ state' = CompareExchange(state, 0, 1)
    /\ guard' = [guard EXCEPT ![p] = IF TryLockOk(state) THEN "held" ELSE "none"]
    /\ pc' = [pc EXCEPT ![p] = IF TryLockOk(state) THEN "returned" ELSE "racy_listen"]
    /\ mutex' = [mutex EXCEPT ![p] = ~TryLockOk(state)]
    /\ UNCHANGED <<lock_ops, data, tmp, incs, width, aborted>>

LockPoll(p) == LockPollAs(p, "ref")
LockArcPoll(p) == LockPollAs(p, "arc")

-----------------------------------------------------------------------------
(* AcquireSlow::poll_with_strategy: the racy loop.                         *)

\* Variant: the racy loop goes on to the state word without a listener.
RacyListen_Unregistered(p) ==
    /\ ~aborted
    /\ pc[p] = "racy_listen"
    /\ pc' = [pc EXCEPT ![p] = "racy_cas"]
    /\ UNCHANGED <<state, lock_ops, data, mutex, starved, guard, tmp, ahead,
                   entered, subs, incs, calls, width, aborted>>

RacyListen(p) ==
    /\ ~aborted
    /\ pc[p] = "racy_listen"
    /\ lock_ops' = Listen(lock_ops, p)
    /\ pc' = [pc EXCEPT ![p] = "racy_cas"]
    /\ UNCHANGED <<state, data, mutex, starved, guard, tmp, ahead, entered,
                   subs, incs, calls, width, aborted>>

\* The compare_exchange right after registering.  On success take_mutex of an
\* attempt that is not starved touches no shared state and the poll returns
\* the mutex; the listener stays registered until the future is dropped.
RacyCas(p) ==
    /\ ~aborted
    /\ pc[p] = "racy_cas"
    /\ state' = CompareExchange(state, 0, 1)
    /\ IF TryLockOk(state)
       THEN /\ guard' = [guard EXCEPT ![p] = "held"]
            /\ mutex' = [mutex EXCEPT ![p] = FALSE]
            /\ pc' = [pc EXCEPT ![p] = "ready"]
       ELSE /\ pc' = [pc EXCEPT ![p] =
                         IF RacyRetry(state) THEN "racy_poll" ELSE "escalate"]
            /\ UNCHANGED <<guard, mutex>>
    /\ UNCHANGED <<lock_ops, data, starved, tmp, ahead, entered, subs, incs,
                   calls, width, aborted>>

\* strategy.poll(listener): Ready takes the listener out, Pending suspends.
RacyPoll(p) ==
    /\ ~aborted
    /\ \/ /\ pc[p] \in {"racy_poll", "racy_wait"}
          /\ IsNotified(lock_ops, p)
          /\ lock_ops' = Remove(lock_ops, p, FALSE)
          /\ pc' = [pc EXCEPT ![p] = "racy_woken"]
       \/ /\ pc[p] = "racy_poll"
          /\ ~IsNotified(lock_ops, p)
          /\ pc' = [pc EXCEPT ![p] = "racy_wait"]
          /\ UNCHANGED lock_ops
    /\ UNCHANGED <<state, data, mutex, starved, guard, tmp, ahead, entered,
                   subs, incs, calls, width, aborted>>

\* The compare_exchange after a notification; elapsed says whether
\* start.elapsed() exceeds the 500 microseconds.  The listener is gone, so a
\* future that wins here has nothing left to release when it is dropped.
RacyWoken(p) ==
    /\ ~aborted
    /\ pc[p] = "racy_woken"
    /\ state' = CompareExchange(state, 0, 1)
    /\ IF TryLockOk(state)
       THEN /\ guard' = [guard EXCEPT ![p] = "held"]
            /\ mutex' = [mutex EXCEPT ![p] = FALSE]
            /\ pc' = [pc EXCEPT ![p] = "returned"]
       ELSE /\ UNCHANGED <<guard, mutex>>
            /\ IF RacyRetry(state)
               THEN \E elapsed \in BOOLEAN :
                        pc' = [pc EXCEPT ![p] =
                                  IF elapsed THEN "escalate" ELSE "racy_listen"]
               ELSE pc' = [pc EXCEPT ![p] = "racy_notify"]
    /\ UNCHANGED <<lock_ops, data, starved, tmp, ahead, entered, subs, incs,
                   calls, width, aborted>>

\* Variant: the woken attempt leaves the racy loop without the notify(1).
RacyNotify_None(p) ==
    /\ ~aborted
    /\ pc[p] = "racy_notify"
    /\ pc' = [pc EXCEPT ![p] = "escalate"]
    /\ UNCHANGED <<state, lock_ops, data, mutex, starved, guard, tmp, ahead,
                   entered, subs, incs, calls, width, aborted>>

RacyNotify(p) ==
    /\ ~aborted
    /\ pc[p] = "racy_notify"
    /\ lock_ops' = Notify(lock_ops, 1)
    /\ pc' = [pc EXCEPT ![p] = "escalate"]
    /\ UNCHANGED <<state, data, mutex, starved, guard, tmp, ahead, entered,
                   subs, incs, calls, width, aborted>>

\* fetch_add(2), the overflow check, starved = true.
Escalate(p) ==
    /\ ~aborted
    /\ pc[p] = "escalate"
    /\ state' = FetchAdd(state, 2)
    /\ IF Overflow(state)
       THEN /\ aborted' = TRUE
            /\ UNCHANGED <<starved, pc, entered>>
       ELSE /\ starved' = [starved EXCEPT ![p] = TRUE]
            /\ pc' = [pc EXCEPT ![p] =
                         IF Registered(lock_ops, p) THEN "fair_poll"
                         ELSE "fair_listen"]
            /\ entered' = IF Registered(lock_ops, p) THEN Enter(entered, p)
                          ELSE entered
            /\ UNCHANGED aborted
    /\ UNCHANGED <<lock_ops, data, mutex, guard, tmp, ahead, subs, incs, calls,
                   width>>

-----------------------------------------------------------------------------
(* AcquireSlow::poll_with_strategy: the fair loop.                         *)

\* A starved attempt claimed the lock bit: take_mutex follows in the same
\* poll, then the guard is handed out.
FairWin(p) ==
    /\ guard' = [guard EXCEPT ![p] = "held"]
    /\ ahead' = [b \in Procs |-> ahead[b] \ {p}]
    /\ pc' = [pc EXCEPT ![p] = "take"]

FairListen(p) ==
    /\ ~aborted
    /\ pc[p] = "fair_listen"
    /\ lock_ops' = Listen(lock_ops, p)
    /\ pc' = [pc EXCEPT ![p] = "fair_cas"]
    /\ entered' = Enter(entered, p)
    /\ UNCHANGED <<state, data, mutex, starved, guard, tmp, ahead, subs, incs,
                   calls, width, aborted>>

FairCas(p) ==
    /\ ~aborted
    /\ pc[p] = "fair_cas"
    /\ state' = CompareExchange(state, 2, 3)
    /\ IF FairCasOk(state) THEN FairWin(p)
       ELSE /\ pc' = [pc EXCEPT ![p] =
                         IF FairHeld(state) THEN "fair_poll" ELSE "fair_notify"]
            /\ UNCHANGED <<guard, ahead>>
    /\ UNCHANGED <<lock_ops, data, mutex, starved, tmp, entered, subs, incs,
                   calls, width, aborted>>

FairNotify(p) ==
    /\ ~aborted
    /\ pc[p] = "fair_notify"
    /\ lock_ops' = Notify(lock_ops, 1)
    /\ pc' = [pc EXCEPT ![p] = "fair_poll"]
    /\ UNCHANGED <<state, data, mutex, starved, guard, tmp, ahead, entered,
                   subs, incs, calls, width, aborted>>

FairPoll(p) ==
    /\ ~aborted
    /\ \/ /\ pc[p] \in {"fair_poll", "fair_wait"}
          /\ IsNotified(lock_ops, p)
          /\ lock_ops' = Remove(lock_ops, p, FALSE)
          /\ pc' = [pc EXCEPT ![p] = "fair_or"]
       \/ /\ pc[p] = "fair_poll"
          /\ ~IsNotified(lock_ops, p)
          /\ pc' = [pc EXCEPT ![p] = "fair_wait"]
          /\ UNCHANGED lock_ops
    /\ UNCHANGED <<state, data, mutex, starved, guard, tmp, ahead, entered,
                   subs, incs, calls, width, aborted>>

\* Variant: after a failed fetch_or the attempt falls back to the racy loop.
FairOr_Racy(p) ==
    /\ ~aborted
    /\ pc[p] = "fair_or"
    /\ state' = FetchOr1(state)
    /\ IF FairOrOk(state) THEN FairWin(p)
       ELSE /\ pc' = [pc EXCEPT ![p] = "racy_listen"]
            /\ UNCHANGED <<guard, ahead>>
    /\ UNCHANGED <<lock_ops, data, mutex, starved, tmp, entered, subs, incs,
                   calls, width, aborted>>

FairOr(p) ==
    /\ ~aborted
    /\ pc[p] = "fair_or"
    /\ state' = FetchOr1(state)
    /\ IF FairOrOk(state) THEN FairWin(p)
       ELSE /\ pc' = [pc EXCEPT ![p] = "fair_listen"]
            /\ UNCHANGED <<guard, ahead>>
    /\ UNCHANGED <<lock_ops, data, mutex, starved, tmp, entered, subs, incs,
                   calls, width, aborted>>

-----------------------------------------------------------------------------
(* AcquireSlow::take_mutex, on success and in the destructor.              *)

\* The effect of take_mutex on the state word and on the Option.
TakeMutex(p) ==
    /\ state' = FetchSub(state, TakeMutexSub(p))
    /\ subs' = [subs EXCEPT ![p] = @ + TakeMutexSub(p) \div 2]
    /\ mutex' = [mutex EXCEPT ![p] = FALSE]

\* take_mutex of the attempt that claimed the lock bit; the poll returns.
Take(p) ==
    /\ ~aborted
    /\ pc[p] = "take"
    /\ TakeMutex(p)
    /\ pc' = [pc EXCEPT ![p] =
                 IF Registered(lock_ops, p) THEN "ready" ELSE "returned"]
    /\ entered' = Leave(entered, p)
    /\ UNCHANGED <<lock_ops, data, starved, guard, tmp, ahead, incs, calls,
                   width, aborted>>

\* Variant: the listener of a completed future is never released.
FutureDrop_Keep(p) ==
    /\ ~aborted
    /\ pc[p] = "ready"
    /\ TakeMutex(p)
    /\ lock_ops' = lock_ops
    /\ pc' = [pc EXCEPT ![p] = "returned"]
    /\ UNCHANGED <<data, starved, guard, tmp, ahead, entered, incs, calls,
                   width, aborted>>

\* Destruction of a future that has completed: take_mutex, then the listener
\* (still registered when the lock was won right after registering) is dropped.
FutureDrop(p) ==
    /\ ~aborted
    /\ pc[p] = "ready"
    /\ TakeMutex(p)
    /\ lock_ops' = Remove(lock_ops, p, TRUE)
    /\ pc' = [pc EXCEPT ![p] = "returned"]
    /\ UNCHANGED <<data, starved, guard, tmp, ahead, entered, incs, calls,
                   width, aborted>>

\* Cancellation: destruction of a suspended future.  PinnedDrop runs
\* take_mutex, then the fields are dropped.
Cancel(p) ==
    /\ ~aborted
    /\ pc[p] \in {"racy_wait", "fair_wait"}
    /\ TakeMutex(p)
    /\ ahead' = [b \in Procs |-> ahead[b] \ {p}]
    /\ entered' = Leave(entered, p)
    /\ pc' = [pc EXCEPT ![p] = "drop_listener"]
    /\ UNCHANGED <<lock_ops, data, starved, guard, tmp, incs, calls, width,
                   aborted>>

DropListener(p) ==
    /\ ~aborted
    /\ pc[p] = "drop_listener"
    /\ lock_ops' = Remove(lock_ops, p, TRUE)
    /\ pc' = [pc EXCEPT ![p] = "cancelled"]
    /\ UNCHANGED <<state, data, mutex, starved, guard, tmp, ahead, entered,
                   subs, incs, calls, width, aborted>>

-----------------------------------------------------------------------------
(* The guards: access to the protected value, and the release.             *)

\* The task has its guard in hand (its poll or try_lock has returned).
HasGuard(p) == guard[p] = "held" /\ pc[p] \in {"try_some", "ready", "returned"}

\* Deref: an increment of the protected value begins with a read ...
Deref(p) ==
    /\ ~aborted
    /\ HasGuard(p)
    /\ tmp' = [tmp EXCEPT ![p] = data]
    /\ incs' = incs + 1
    /\ guard' = [guard EXCEPT ![p] = "read"]
    /\ UNCHANGED <<state, lock_ops, data, pc, mutex, starved, ahead, entered,
                   subs, calls, width, aborted>>

\* ... and ends with a write of the value read plus one.
DerefMut(p) ==
    /\ ~aborted
    /\ guard[p] = "read"
    /\ data' = tmp[p] + 1
    /\ tmp' = [tmp EXCEPT ![p] = 0]
    /\ guard' = [guard EXCEPT ![p] = "written"]
    /\ UNCHANGED <<state, lock_ops, pc, mutex, starved, ahead, entered, subs,
                   incs, calls, width, aborted>>

\* Drop of the guard, first half of unlock_unchecked: fetch_sub(1).
GuardDropAs(p, k) ==
    /\ ~aborted
    /\ Kind(p) = k
    /\ HasGuard(p) \/ guard[p] = "written"
    /\ state' = UnlockState(state)
    /\ guard' = [guard EXCEPT ![p] = "notify"]
    /\ UNCHANGED <<lock_ops, data, pc, mutex, starved, tmp, ahead, entered,
                   subs, incs, calls, width, aborted>>

MutexGuardDrop(p) == GuardDropAs(p, "ref")
MutexGuardArcDrop(p) == GuardDropAs(p, "arc")

\* Second half of unlock_unchecked: lock_ops.notify(1).
UnlockNotify(p) ==
    /\ ~aborted
    /\ guard[p] = "notify"
    /\ lock_ops' = UnlockNotifyQueue(lock_ops)
    /\ guard' = [guard EXCEPT ![p] = "dropped"]
    /\ UNCHANGED <<state, data, pc, mutex, starved, tmp, ahead, entered, subs,
                   incs, calls, width, aborted>>

-----------------------------------------------------------------------------
\* The steps of task p's poll, from the fast path to the return of the mutex.
Poll(p) ==
    \/ LockPoll(p) \/ LockArcPoll(p)
    \/ RacyListen(p) \/ RacyCas(p) \/ RacyPoll(p) \/ RacyWoken(p)
    \/ RacyNotify(p) \/ Escalate(p)
    \/ FairListen(p) \/ FairCas(p) \/ FairNotify(p) \/ FairPoll(p)
    \/ FairOr(p) \/ Take(p)

\* What follows a completion: the future is dropped, the guard used and dropped.
Release(p) ==
    \/ FutureDrop(p)
    \/ Deref(p) \/ DerefMut(p)
    \/ MutexGuardDrop(p) \/ MutexGuardArcDrop(p) \/ UnlockNotify(p)

Drive(p) == Poll(p) \/ Release(p)

Next ==
    \E p \in Procs :
        \/ TryLock(p) \/ TryLockArc(p)
        \/ Drive(p)
        \/ Cancel(p) \/ DropListener(p)

Spec == Init /\ [][Next]_vars

\* No attempt is cancelled; every runnable attempt is eventually driven,
\* every completed future and every guard is eventually dropped.
NextLive == \E p \in Procs : TryLock(p) \/ TryLockArc(p) \/ Drive(p)

LiveSpec == Init /\ [][NextLive]_vars /\ \A p \in Procs : WF_vars(Drive(p))

\* Attempts may be cancelled at their suspension points; a destructor that
\* has begun runs to its end.
CancelSpec ==
    Init /\ [][Next]_vars /\ \A p \in Procs : WF_vars(Drive(p) \/ DropListener(p))

\* The attempts of Spec on the narrower state words.
NarrowSpec == InitNarrow /\ [][Next]_vars

\* The mutex is also rendered for debugging, by any task between its attempts.
Debug(p) == DebugFmt(p) \/ DebugField(p) \/ DebugGuardDrop(p)

NextDebug == Next \/ \E p \in Procs : Debug(p)

DebugSpec == Init /\ [][NextDebug]_vars

-----------------------------------------------------------------------------
(* Notions the properties share.                                           *)

\* The tasks whose guard is live: handed out or on its way out of the poll
\* that claimed the lock bit, and not yet released by fetch_sub(1).
LiveGuards == {p \in Procs : guard[p] \in {"held", "read", "written"}}

\* The escalated attempts in flight: starved, neither returned nor destroyed.
InFlightStarved == {p \in Procs : starved[p] /\ mutex[p]}

\* The attempts suspended on their listener.
Suspended == {p \in Procs : pc[p] \in {"racy_wait", "fair_wait"}}

StarvedCount == state \div 2
LockBit == state % 2

\* Every attempt started has succeeded or been cancelled (or was a try_lock).
AllResolved ==
    \A p \in Procs :
        pc[p] \in {"unpolled", "try_none", "try_some", "ready", "returned",
                   "cancelled"}

\* All the attempts have been started and every task is through.
AllDone == calls = MaxCalls /\ \A p \in Procs : Idle(p)

-----------------------------------------------------------------------------
(* C1. Mutual exclusion: in every reachable state, under any interleaving  *)
(* of try_lock, lock and lock_arc attempts (fast path, racy loop,          *)
(* escalation, fair loop), guard destruction and cancellation, at most one *)
(* live guard exists for the mutex.                                        *)
C1_MutualExclusion == Cardinality(LiveGuards) <= 1

\* A guard is in use while one attempt waits in the fair loop and another in
\* the racy loop.
C1_Witness ==
    \E p, q, r \in Procs :
        guard[p] = "read" /\ pc[q] = "fair_wait" /\ pc[r] = "racy_wait"

C3_NoOvertaking == \A b \in Procs : guard[b] # "none" => ahead[b] = {}

(* C3 as amended. An attempt that arrived after A's escalation obtains the *)
(* lock before A only after escalating itself: while A is pending, no      *)
(* later arrival obtains the lock through try_lock, the fast path or the   *)
(* racy loop.                                                              *)
C3_OvertakingOnlyEscalated ==
    \A b \in Procs : guard[b] # "none" /\ ahead[b] # {} => starved[b]

\* A later arrival, escalated itself, holds the lock while the attempt that
\* had escalated before its arrival still waits.
C3_Witness ==
    \E a, b \in Procs :
        a \in ahead[b] /\ guard[b] = "held" /\ starved[b] /\ pc[a] = "fair_wait"

(* C4. Cancellation safety: dropping a pending attempt at any suspension   *)
(* point, notified or not, leaves the state word a valid encoding (the     *)
(* lock bit matches the live guard, the starved count the escalated        *)
(* attempts in flight) and never deadlocks the others: every pending       *)
(* attempt eventually claims the lock or is itself cancelled.              *)
C4_ValidEncoding ==
    /\ (LockBit = 1) <=> (LiveGuards # {})
    /\ StarvedCount = Cardinality(InFlightStarved)

C5_CounterExactness == AllResolved => StarvedCount = 0

\* All attempts are resolved: one escalated and was cancelled, another
\* escalated and succeeded.
C5_Witness ==
    /\ AllResolved /\ calls = MaxCalls
    /\ \E p, q \in Procs :
        /\ pc[p] = "cancelled" /\ starved[p]
        /\ pc[q] \in {"ready", "returned"} /\ starved[q]

(* C6. Exactly-once compensating decrement: an attempt whose starved flag  *)
(* became true performs exactly one fetch_sub(2) over its lifetime, on     *)
(* success or on destruction while waiting; an attempt that never          *)
(* escalated performs none; never more than one.                           *)
C6_ExactlyOnce ==
    \A p \in Procs :
        /\ subs[p] <= 1
        /\ ~starved[p] => subs[p] = 0
        /\ starved[p] /\ pc[p] \in {"ready", "returned", "drop_listener",
                                     "cancelled"} => subs[p] = 1

\* One escalated attempt was destroyed while waiting, another succeeded and
\* its future was dropped.
C6_Witness ==
    \E p, q \in Procs :
        /\ pc[p] = "cancelled" /\ subs[p] = 1
        /\ pc[q] = "returned" /\ subs[q] = 1

(* C7. Lock-bit invariant: in every reachable state, bit 0 of the state    *)
(* word is 1 if and only if exactly one live guard references the mutex.   *)
C7_LockBit == (LockBit = 1) <=> (Cardinality(LiveGuards) = 1)

\* Locked with two escalated attempts counted.
C7_Witness == state = 5 /\ Cardinality(LiveGuards) = 1

(* C8. Starved-count invariant: in every reachable state, the starved      *)
(* count of the state word equals the number of in-flight attempts that    *)
(* are in escalated mode.                                                  *)
C8_StarvedCount == StarvedCount = Cardinality(InFlightStarved)

\* Of two escalated attempts one was cancelled, the other is still in flight
\* while the lock is held.
C8_Witness ==
    /\ state = 3
    /\ \E p, q \in Procs :
        pc[p] = "cancelled" /\ starved[p] /\ starved[q] /\ mutex[q]

(* C9. Critical sections do not interleave: no attempt reads the protected *)
(* value while another has read it and not yet written it back, and        *)
(* whenever no increment is under way the value is its initial value plus  *)
(* the number of increments made, so after all guards are destroyed it is  *)
(* the initial value plus the number of attempts that incremented.         *)
C9_NoInterleaving ==
    LET reading == {p \in Procs : guard[p] = "read"}
    IN  /\ Cardinality(reading) <= 1
        /\ reading = {} => data = incs

\* Every attempt of the run has incremented and released.
C9_Witness == AllDone /\ data = MaxCalls

(* C10. try_lock and try_lock_arc never wait: the call returns a guard     *)
(* exactly when its compare-and-swap 0 -> 1 succeeds, and otherwise        *)
(* returns nothing and leaves the state word, the notifier queue and the   *)
(* protected value unchanged.                                              *)
C10_Same(q) == pc'[q] = pc[q] /\ guard'[q] = guard[q]

\* The step is a try_lock or try_lock_arc call of task p: an attempt starts,
\* p alone moves and ends with the call's result (a failed call that follows a
\* failed call moves nothing).
C10_TryStep(p) ==
    /\ calls' = calls + 1
    /\ pc'[p] \in {"try_some", "try_none"}
    /\ \A q \in Procs \ {p} : C10_Same(q)
    /\ C10_Same(p) => pc[p] = "try_none"

C10_TryLock ==
    [][\A p \in Procs :
        C10_TryStep(p) =>
            /\ lock_ops' = lock_ops /\ data' = data
            /\ state = 0 => state' = 1 /\ pc'[p] = "try_some" /\ guard'[p] = "held"
            /\ state # 0 => state' = state /\ pc'[p] = "try_none" /\ guard'[p] = "none"
      ]_vars

\* A call has failed while the lock is held, an attempt is registered and
\* has escalated; it was the last of the run's calls.
C10_Witness ==
    /\ \E p \in Procs : pc[p] = "try_none"
    /\ state = 3 /\ lock_ops # <<>> /\ calls = MaxCalls

(* C11. Release then re-acquire: while a guard is live, try_lock returns   *)
(* nothing; right after that guard is destroyed with no other attempt in   *)
(* flight, try_lock succeeds, and the new guard reads exactly the value    *)
(* last written through the previous guard.                                *)
C11_NoneInFlight == \A q \in Procs : ~mutex[q]

C11_ReleaseReacquire ==
    [][\A p \in Procs :
        /\ C10_TryStep(p) =>
            /\ LiveGuards # {} => pc'[p] = "try_none" /\ guard'[p] = "none"
            /\ LiveGuards = {} /\ C11_NoneInFlight =>
                   pc'[p] = "try_some" /\ guard'[p] = "held" /\ data' = data
        /\ guard[p] = "held" /\ guard'[p] = "read" =>
               tmp'[p] = data /\ data = incs
      ]_vars

\* A guard wrote 1 and was destroyed; a later try_lock succeeded and its
\* guard has read that 1, with no attempt in flight.
C11_Witness ==
    /\ C11_NoneInFlight /\ data = 1
    /\ \E p, q \in Procs :
        /\ guard[p] = "dropped"
        /\ pc[q] = "try_some" /\ guard[q] = "read" /\ tmp[q] = 1

(* C12. Guard release: destroying a guard of either variant performs       *)
(* exactly one subtraction of 1 from the state word, then exactly one wake *)
(* request for a single waiter (notify(1), never a wake-all); this happens *)
(* exactly once per successful acquisition, and no other operation clears  *)
(* the lock bit.                                                           *)
C12_Live == {"held", "read", "written"}

C12_GuardRelease ==
    [][/\ \A p \in Procs :
            \* a live guard ends only by the subtraction of 1 ...
            /\ guard[p] \in C12_Live /\ guard'[p] \notin C12_Live =>
                   /\ guard'[p] = "notify"
                   /\ state % 2 = 1 /\ state' = state - 1
                   /\ lock_ops' = lock_ops
            /\ guard'[p] = "notify" => guard[p] \in C12_Live \cup {"notify"}
            \* ... which is followed by one notify(1) and nothing else ...
            /\ guard[p] = "notify" /\ guard'[p] # "notify" =>
                   /\ guard'[p] = "dropped"
                   /\ state' = state
                   /\ lock_ops' = Notify(lock_ops, 1)
                   /\ NotifiedCount(lock_ops') <= 1 \/
                          NotifiedCount(lock_ops') = NotifiedCount(lock_ops)
            \* ... and a released guard is released for good: the task holds
            \* a guard again only through a new acquisition.
            /\ guard[p] = "dropped" /\ guard'[p] # "dropped" =>
                   guard'[p] \in {"none", "held"} /\ calls' = calls + 1
       /\ LockBit = 1 /\ LockBit' = 0 =>
              \E p \in Procs : guard[p] \in C12_Live /\ guard'[p] = "notify"
      ]_vars

\* A guard of each variant has been released; the second release has
\* notified the one attempt that waits, and the lock is free.
C12_Witness ==
    /\ LockBit = 0 /\ NotifiedCount(lock_ops) = 1
    /\ \E p, q, r \in Procs :
        /\ Kind(p) = "ref" /\ guard[p] = "dropped"
        /\ Kind(q) = "arc" /\ guard[q] = "dropped"
        /\ pc[r] \in {"racy_wait", "fair_wait"}

(* C13 as stated. Debug rendering of a mutex never waits for the lock,     *)
(* renders the contained value whenever the mutex is currently unlocked    *)
(* (lock bit 0, whatever the starved count), and renders the fixed         *)
(* placeholder "<locked>" whenever it is locked.                           *)
C13_Same(q) == pc'[q] = pc[q] /\ guard'[q] = guard[q]

\* The step is the try_lock of a rendering by task p.
C13_FmtStep(p) ==
    /\ calls' = calls + 1
    /\ pc'[p] \in {"fmt_some", "fmt_locked"}
    /\ \A q \in Procs \ {p} : C13_Same(q)
    /\ C13_Same(p) => pc[p] = "fmt_locked"

\* The rendering neither registers a listener nor consumes a notification,
\* and the field it writes is the placeholder or the value of the mutex.
C13_NeverWaits ==
    /\ \A p \in Procs :
        /\ pc[p] \in {"fmt_some", "fmt_value"} => ~Registered(lock_ops, p)
        /\ pc[p] = "fmt_locked" => Rendered(p)[3] = "<locked>"
        /\ pc[p] = "fmt_value" /\ guard[p] = "held" =>
               Rendered(p)[3] = data /\ data = incs

C13_RendersWhenUnlocked ==
    [][\A p \in Procs :
        C13_FmtStep(p) =>
            /\ lock_ops' = lock_ops
            /\ LockBit = 0 => pc'[p] = "fmt_some"
            /\ LockBit = 1 => pc'[p] = "fmt_locked"
      ]_vars

(* C13 as amended. Debug rendering never waits for the lock, renders the   *)
(* contained value whenever the state word is 0 (unlocked and no escalated *)
(* attempt counted), and renders "<locked>" whenever the mutex is locked   *)
(* or an escalated attempt is counted in the state word.                   *)
C13_RendersWhenZero ==
    /\ []C13_NeverWaits
    /\ [][\A p \in Procs :
            C13_FmtStep(p) =>
                /\ lock_ops' = lock_ops
                /\ state = 0 => pc'[p] = "fmt_some" /\ guard'[p] = "held"
                /\ state # 0 =>
                       pc'[p] = "fmt_locked" /\ guard'[p] = "none" /\ state' = state
          ]_vars

\* The mutex is unlocked with one escalated attempt counted and no guard
\* left, and a rendering made at the last call has written the placeholder.
C13_Witness ==
    /\ state = 2 /\ calls = MaxCalls
    /\ \A q \in Procs : guard[q] \in {"none", "dropped"}
    /\ \E p, r \in Procs :
        /\ pc[p] = "fmt_locked" /\ Rendered(p) = <<"Mutex", "data", Locked>>
        /\ starved[r] /\ mutex[r]

(* C14. Overflow safety valve: with a state word of width w, an escalation *)
(* whose fetch_add(2) returns a previous value greater than                *)
(* (2^w - 1) div 2 drives the process to the abort state, so in every      *)
(* non-aborted reachable state the state word has never wrapped modulo     *)
(* 2^w; no other condition ever leads to the abort state.                  *)
C14_Half == (2 ^ width - 1) \div 2

\* The step is the fetch_add(2) of task p's escalation.
C14_EscalateStep(p) ==
    /\ pc[p] = "escalate"
    /\ pc'[p] # "escalate" \/ (aborted' /\ ~aborted)

\* Without abort the word is the unwrapped count: twice the escalated
\* attempts in flight, plus one when a guard is live.
C14_NotWrapped ==
    ~aborted =>
        state = 2 * Cardinality(InFlightStarved) + Cardinality(LiveGuards)

C14_OverflowValve ==
    /\ []C14_NotWrapped
    /\ [][\A p \in Procs :
            C14_EscalateStep(p) =>
                IF state > C14_Half THEN aborted'
                ELSE ~aborted' /\ state' = state + 2 /\ starved'[p]
         ]_vars
    /\ [][aborted' /\ ~aborted =>
              \E p \in Procs : pc[p] = "escalate" /\ state > C14_Half
         ]_vars

\* On a two-bit word a second escalation found the word above the half
\* range: the process has aborted and the addition has wrapped.
C14_Witness ==
    /\ aborted /\ width = 2 /\ state < 2
    /\ \E p, q \in Procs : pc[p] = "escalate" /\ starved[q] /\ mutex[q]

(* C15 as stated. Among escalated attempts, the lock is granted in queue   *)
(* order: if escalated attempt A entered fair mode (and registered its     *)
(* listener) before escalated attempt B, and neither is cancelled, then A  *)
(* acquires the lock before B.                                             *)
C15_QueueOrder ==
    \A b \in Procs : pc[b] = "take" => Head(entered) = b

(* C15 as amended. If escalated attempt A entered fair mode (and           *)
(* registered its listener) before escalated attempt B, and neither is     *)
(* cancelled, then B acquires the lock before A only by consuming a        *)
(* notification and finding the lock bit clear (fetch_or); B never         *)
(* acquires before A by the compare-and-swap that follows a registration.  *)
C15_OvertakeOnlyWoken ==
    \A b \in Procs :
        pc[b] = "take" =>
            /\ \E i \in DOMAIN entered : entered[i] = b
            /\ Head(entered) # b => ~Registered(lock_ops, b)

\* B has claimed the lock after a notification while A, which entered fair
\* mode before B, is registered and has not yet acquired.
C15_Witness ==
    \E a, b \in Procs :
        /\ entered = <<a, b>> /\ pc[b] = "take" /\ guard[b] = "held"
        /\ guard[a] = "none" /\ Registered(lock_ops, a)

(* C16. No barging past an escalated waiter: in any state where the        *)
(* starved count is at least 1, no non-escalated acquirer (try_lock,       *)
(* try_lock_arc, the fast path of lock / lock_arc, a racy-loop             *)
(* compare-and-swap) obtains the lock; every acquisition made while the    *)
(* starved count is non-zero is made by an attempt whose starved flag is   *)
(* true, and a racy attempt that observes a state of 2 or more proceeds to *)
(* escalation instead of retrying the racy loop.                           *)
C16_NoBarging ==
    [][\A p \in Procs :
        /\ StarvedCount >= 1 /\ guard[p] # "held" /\ guard'[p] = "held" =>
               /\ pc[p] \in {"fair_cas", "fair_or"}
               /\ starved[p] /\ starved'[p]
        /\ state >= 2 /\ pc[p] \in {"racy_cas", "racy_woken"} /\ pc'[p] # pc[p] =>
               /\ pc'[p] = IF pc[p] = "racy_cas" THEN "escalate" ELSE "racy_notify"
               /\ guard'[p] = "none" /\ state' = state
        /\ pc[p] = "racy_notify" /\ pc'[p] # pc[p] => pc'[p] = "escalate"
      ]_vars

\* The lock is free with an escalated attempt counted; a racy attempt woken
\* by the release has observed that and is on its way to escalation.
C16_Witness ==
    /\ StarvedCount >= 1 /\ LockBit = 0
    /\ \E q, r \in Procs :
        /\ pc[q] = "racy_notify" /\ ~starved[q] /\ guard[q] = "none"
        /\ starved[r] /\ mutex[r] /\ guard[r] = "none"

(* C17. No missed wake: in both loops an unregistered attempt registers    *)
(* its listener before it inspects the state word, so that in every        *)
(* reachable state where the lock bit is 0, no attempt is mid-step and at  *)
(* least one attempt is suspended waiting, at least one suspended attempt  *)
(* holds a delivered-but-unconsumed notification.                          *)

\* The positions of the two loops that follow a registration, up to the
\* consumption of the notification.
C17_AfterListen ==
    {"racy_cas", "racy_poll", "racy_wait", "fair_cas", "fair_notify",
     "fair_poll", "fair_wait"}

\* Every task is at rest: between attempts, suspended on its listener, or
\* through with its attempt, the future dropped and no release under way.
C17_AtRest ==
    \A p \in Procs :
        /\ pc[p] \in {"unpolled", "try_none", "try_some", "racy_wait",
                      "fair_wait", "returned", "cancelled"}
        /\ guard[p] # "notify"

C18_Moves(p) == pc'[p] # pc[p] \/ (aborted' /\ ~aborted)

C18_RacyForwarding ==
    [][\A p \in Procs :
        \* the compare-and-swap that follows the notification
        /\ pc[p] = "racy_woken" /\ C18_Moves(p) =>
               /\ ~Registered(lock_ops, p) /\ lock_ops' = lock_ops
               /\ state = 0 =>
                      state' = 1 /\ guard'[p] = "held" /\ pc'[p] = "returned"
               /\ state = 1 =>
                      /\ state' = 1 /\ guard'[p] = "none"
                      /\ pc'[p] \in {"racy_listen", "escalate"}
               /\ state >= 2 =>
                      state' = state /\ guard'[p] = "none" /\ pc'[p] = "racy_notify"
        \* the one wake, then the escalation
        /\ pc[p] = "racy_notify" /\ C18_Moves(p) =>
               /\ lock_ops' = Notify(lock_ops, 1)
               /\ state' = state /\ pc'[p] = "escalate"
        \* no wake on the way to the next registration
        /\ pc[p] = "escalate" /\ C18_Moves(p) => lock_ops' = lock_ops
        /\ pc[p] \in {"racy_listen", "fair_listen"} /\ C18_Moves(p) =>
               lock_ops' = Listen(lock_ops, p) /\ state' = state
      ]_vars

\* A woken racy attempt has observed an escalated state with the lock free
\* while the escalated attempt waits, registered and not notified.
C18_Witness ==
    \E p, r \in Procs :
        /\ pc[p] = "racy_notify" /\ ~Registered(lock_ops, p)
        /\ LockBit = 0 /\ NotifiedCount(lock_ops) = 0
        /\ starved[r] /\ pc[r] = "fair_wait" /\ Registered(lock_ops, r)

(* C19. Fair-loop registration step: an escalated attempt that has just    *)
(* registered acquires only by compare-and-swap from exactly 2 to 3; if it *)
(* observes an odd value it waits without issuing a wake; if it observes   *)
(* an even value other than 2 it does not take the lock, issues exactly    *)
(* one wake (notify(1)) and stays registered waiting, leaving the state    *)
(* word unchanged.                                                         *)
C19_Moves(p) == pc'[p] # pc[p]

C19_FairRegistration ==
    [][\A p \in Procs :
        \* the compare-and-swap that follows the registration
        /\ pc[p] = "fair_cas" /\ C19_Moves(p) =>
               /\ starved[p] /\ Registered(lock_ops, p) /\ lock_ops' = lock_ops
               /\ state = 2 =>
                      state' = 3 /\ guard'[p] = "held" /\ pc'[p] = "take"
               /\ state % 2 = 1 =>
                      state' = state /\ guard'[p] = "none" /\ pc'[p] = "fair_poll"
               /\ state % 2 = 0 /\ state # 2 =>
                      state' = state /\ guard'[p] = "none" /\ pc'[p] = "fair_notify"
        \* the one wake, after which the attempt is back at its listener
        /\ pc[p] = "fair_notify" /\ C19_Moves(p) =>
               /\ lock_ops' = Notify(lock_ops, 1) /\ Registered(lock_ops', p)
               /\ state' = state /\ guard'[p] = "none" /\ pc'[p] = "fair_poll"
        \* at its listener the attempt suspends, or consumes a notification
        /\ pc[p] = "fair_poll" /\ C19_Moves(p) =>
               /\ state' = state /\ guard'[p] = "none"
               /\ \/ pc'[p] = "fair_wait" /\ lock_ops' = lock_ops
                  \/ /\ pc'[p] = "fair_or" /\ IsNotified(lock_ops, p)
                     /\ lock_ops' = Without(lock_ops, p)
      ]_vars

\* An escalated attempt has registered behind another listener and has
\* observed the lock free with two escalated attempts counted.
C19_Witness ==
    \E p \in Procs :
        /\ pc[p] = "fair_notify" /\ state = 4 /\ Registered(lock_ops, p)
        /\ lock_ops[1].id # p /\ ~lock_ops[1].notified

(* C20. Fair-loop wake step: an escalated attempt that consumes a          *)
(* notification performs fetch_or(1) and succeeds if and only if the value *)
(* before the OR was even, regardless of how many other escalated attempts *)
(* are counted in the state word; when the previous value was odd the      *)
(* state word is left unchanged and the attempt re-registers and waits     *)
(* again.                                                                  *)
C20_Moves(p) == pc'[p] # pc[p]

C20_FairWake ==
    [][\A p \in Procs :
        \* the fetch_or(1) that follows the notification
        /\ pc[p] = "fair_or" /\ C20_Moves(p) =>
               /\ starved[p] /\ ~Registered(lock_ops, p) /\ lock_ops' = lock_ops
               /\ state % 2 = 0 =>
                      state' = state + 1 /\ guard'[p] = "held" /\ pc'[p] = "take"
               /\ state % 2 = 1 =>
                      state' = state /\ guard'[p] = "none" /\ pc'[p] = "fair_listen"
        \* an escalated attempt comes to the fetch_or only from its listener
        /\ pc'[p] = "fair_or" /\ C20_Moves(p) =>
               pc[p] \in {"fair_poll", "fair_wait"} /\ IsNotified(lock_ops, p)
        \* after a failure the attempt registers again, then looks again
        /\ pc[p] = "fair_listen" /\ C20_Moves(p) =>
               /\ lock_ops' = Listen(lock_ops, p) /\ state' = state
               /\ pc'[p] = "fair_cas"
      ]_vars

\* An escalated attempt has taken the lock by fetch_or while an attempt that
\* entered the fair loop before it is still counted in the state word.
C20_Witness ==
    \E a, p \in Procs :
        /\ pc[p] = "take" /\ ~Registered(lock_ops, p) /\ state = 5
        /\ entered = <<a, p>> /\ starved[a] /\ mutex[a]

(* C21. Escalation is one-way and happens at most once per attempt: an     *)
(* attempt adds 2 to the state word at most once in its lifetime, sets its *)
(* starved flag in the same step, and once the flag is set it never        *)
(* executes the racy loop's 0 -> 1 compare-and-swap again, across any      *)
(* number of suspensions and resumptions, until it succeeds or is          *)
(* cancelled.                                                              *)

\* The positions of the racy loop, up to and including the fetch_add(2).
C21_Racy ==
    {"racy_listen", "racy_cas", "racy_poll", "racy_wait", "racy_woken",
     "racy_notify", "escalate"}

\* No attempt in the racy loop has its flag set.
C21_FlagMeansFair == \A p \in Procs : pc[p] \in C21_Racy => ~starved[p]

C21_EscalateOnce ==
    /\ []C21_FlagMeansFair
    /\ [][\A p \in Procs :
            \* the fetch_add(2): the flag was clear and is set by the step
            /\ pc[p] = "escalate" /\ pc'[p] # pc[p] =>
                   /\ ~starved[p] /\ starved'[p]
                   /\ state' = state + 2
                   /\ pc'[p] \in {"fair_listen", "fair_poll"}
            \* the flag is set by no other step ...
            /\ ~starved[p] /\ starved'[p] => pc[p] = "escalate"
            \* ... and is cleared only when the task starts a new attempt
            /\ starved[p] /\ ~starved'[p] => calls' = calls + 1
            \* the racy loop is entered only by the first poll of an attempt
            /\ pc'[p] \in C21_Racy /\ pc[p] \notin C21_Racy =>
                   calls' = calls + 1 /\ pc'[p] = "racy_listen"
         ]_vars

\* An escalated attempt that had entered the fair loop was woken with the
\* lock held, and is about to register again, still escalated.
C21_Witness ==
    \E p \in Procs :
        /\ pc[p] = "fair_listen" /\ starved[p] /\ mutex[p] /\ LockBit = 1
        /\ \E i \in DOMAIN entered : entered[i] = p

(* C22. The state word never underflows: every fetch_sub(1) (guard         *)
(* destruction) executes in a state whose lock bit is 1, and every         *)
(* fetch_sub(2) (take step of an escalated attempt, on success or on       *)
(* cancellation) executes in a state whose starved count is at least 1, so *)
(* no subtraction ever wraps below zero or borrows from the other field.   *)
C22_NoUnderflow ==
    [][/\ \A p \in Procs :
            \* fetch_sub(1): the release of p's guard
            /\ guard[p] \in {"held", "read", "written"} /\ guard'[p] = "notify" =>
                   /\ LockBit = 1 /\ state' = state - 1
                   /\ StarvedCount' = StarvedCount
            \* fetch_sub(2): the take step of p's escalated attempt
            /\ subs'[p] = subs[p] + 1 =>
                   /\ starved[p] /\ mutex[p] /\ ~mutex'[p]
                   /\ StarvedCount >= 1 /\ state' = state - 2
                   /\ LockBit' = LockBit
       \* the word goes down by no other step, and never jumps up
       /\ state' < state =>
              \E p \in Procs : guard'[p] = "notify" \/ subs'[p] = subs[p] + 1
       /\ state' > state => state' - state \in {1, 2}
      ]_vars

\* The lock has been released, and an escalated attempt destroyed while it
\* waited has taken the last count out of the word.
C22_Witness ==
    /\ state = 0
    /\ \E p, q \in Procs :
        /\ pc[p] = "drop_listener" /\ starved[p] /\ subs[p] = 1
        /\ guard[q] = "dropped"

(* C23 as stated. A completed attempt absorbs no wake: once an acquisition *)
(* attempt has succeeded (through any of the racy compare-and-swap, the    *)
(* fair 2 -> 3 compare-and-swap or the fair fetch_or), it no longer holds  *)
(* an active listener registration in the notifier queue, so a later wake  *)
(* issued by a guard destruction is never delivered to an attempt that has *)
(* already succeeded but has not yet been destroyed.                       *)
C23_Succeeded == {p \in Procs : pc[p] \in {"take", "ready"}}

C23_Wins(p) == guard[p] # "held" /\ guard'[p] = "held"

====
